---- MODULE Spec2Model ----
(***************************************************************************)
(* The four command-line scripts of CoFAB as one state machine.  A         *)
(* behaviour is one run of one script: Init picks the script, its command  *)
(* line and the file system it starts in; every action is one statement    *)
(* (or one library call) of that script's main(), together with the        *)
(* exception handling and the process exit the statement can lead to.      *)
(* Calls into torch / trellis / shap_e / trimesh / PIL are opaque: each    *)
(* either returns or raises, chosen nondeterministically.                  *)
(***************************************************************************)
EXTENDS Integers, Sequences, FiniteSets, TLC

\* Largest number of positional arguments tried on shap_e_generate.py.
MaxArgc == 5

\* shap_e_test.py: batch_size = 1; shap_e_test_with_render.py: batch_size = 2.
batch_size_test == 1
batch_size_render == 2

Scripts ==
    {"trellis_wrapper", "shap_e_generate", "shap_e_test", "shap_e_test_with_render"}

VARIABLES
    script,           \* which script this run executes
    argv,             \* the command line
    fsenv,            \* the file system before the run
    pc,               \* the statement main() is at
    idx,              \* the loop index i of `for i, latent in enumerate(latents)`
    exited,           \* the process has terminated
    exitStatus,       \* its exit status (meaningful once exited)
    files,            \* files this run has created on disk (complete or not)
    exported,         \* files whose export call returned, in order
    dirsMade,         \* directories this run has passed to os.makedirs
    reports,          \* what was printed about errors, in order
    exits,            \* the sys.exit calls made, in order
    loaded,           \* the pretrained model / pipeline is loaded
    inferCalls,       \* calls of pipeline.run / sample_latents
    inferOk,          \* the inference call has returned
    emptyCacheCalls,  \* calls of torch.cuda.empty_cache
    failure,          \* the site of the failure of this run, "none" if none
    log               \* the statements executed, in order

vars ==
    <<script, argv, fsenv, pc, idx, exited, exitStatus, files, exported, dirsMade,
      reports, exits, loaded, inferCalls, inferOk, emptyCacheCalls, failure, log>>

----------------------------------------------------------------------------
(* Files and reports *)

File(dir, stem, i, ext) == [dir |-> dir, stem |-> stem, i |-> i, ext |-> ext]

\* trellis_wrapper.py: the four paths computed under --output_dir.
obj_path == File("output_dir", "model", 0, "obj")
ply_path == File("output_dir", "gaussian", 0, "ply")
glb_path == File("output_dir", "model", 0, "glb")
preview_path == File("output_dir", "preview", 0, "mp4")

\* shap_e_generate.py: sys.argv[4], a path in a directory of the caller's choice.
output_obj == File("output_obj_dir", "output_obj", 0, "obj")

\* the shap-e test scripts: one gif / ply / obj per latent.
GifPath(i) == File("renders", "latent", i, "gif")
MeshPly(i) == File("meshes", "example_mesh", i, "ply")
MeshObj(i) == File("meshes", "example_mesh", i, "obj")

Range(s) == {s[k] : k \in 1..Len(s)}

\* One error report: its leading tag, the stream the message goes to, the
\* stream the stack trace goes to ("none": no stack trace), and who printed it.
Report(tag, stream, trace, by) ==
    [tag |-> tag, stream |-> stream, trace |-> trace, by |-> by]

Said(acc, r) == [acc EXCEPT !.reports = Append(@, r)]

Requested(acc, by, code) ==
    [acc EXCEPT !.exits = Append(@, [by |-> by, code |-> code])]

Acc == [reports |-> reports, exits |-> exits, status |-> 0]

----------------------------------------------------------------------------
(* Exceptions.  exc is "ImportError", "Exception" (any other subclass of   *)
(* Exception) or "SystemExit" (raised by sys.exit, with its code).         *)

ExceptBaseException(exc) == TRUE

\* `except Exception`: SystemExit derives from BaseException only.
ExceptException(exc) == exc \in {"Exception", "ImportError"}

ExceptImportError(exc) == exc = "ImportError"

\* An exception that leaves main(): SystemExit ends the process with its code;
\* anything else makes the interpreter print the traceback on stderr and end
\* the process with status 1.
Uncaught(exc, code, acc) ==
    IF exc = "SystemExit"
    THEN [acc EXCEPT !.status = code]
    ELSE [Said(acc, Report("Traceback", "stderr", "stderr", "interpreter"))
            EXCEPT !.status = 1]

OuterTryNoExit(exc, code, acc) ==
    IF ExceptException(exc)
    THEN [Said(acc, Report("ERROR:", "stdout", "stderr", "outer_handler"))
            EXCEPT !.status = 0]
    ELSE Uncaught(exc, code, acc)

\* The outer try of trellis_wrapper.main: print("ERROR: An unexpected error
\* occurred"), traceback.print_exc() (stderr), sys.exit(1).
OuterTry(exc, code, acc) ==
    IF ExceptException(exc)
    THEN Uncaught("SystemExit", 1,
             Requested(Said(acc, Report("ERROR:", "stdout", "stderr", "outer_handler")),
                       "outer_handler", 1))
    ELSE Uncaught(exc, code, acc)

\* The try around the torch / trellis imports, inside the outer try.
ImportTry(exc, code, acc) ==
    IF ExceptImportError(exc)
    THEN OuterTry("SystemExit", 1,
             Requested(Said(acc, Report("ERROR:", "stdout", "stderr", "import_handler")),
                       "import_handler", 1))
    ELSE OuterTry(exc, code, acc)

ExportTryNoExit(exc, code, acc) ==
    IF ExceptException(exc)
    THEN [Said(acc, Report("ERROR:", "stdout", "stderr", "export_handler"))
            EXCEPT !.status = 0]
    ELSE OuterTry(exc, code, acc)

\* The try around the GLB / OBJ export, inside the outer try.
ExportTry(exc, code, acc) ==
    IF ExceptException(exc)
    THEN OuterTry("SystemExit", 1,
             Requested(Said(acc, Report("ERROR:", "stdout", "stderr", "export_handler")),
                       "export_handler", 1))
    ELSE OuterTry(exc, code, acc)

\* sys.exit(code) called by the script itself at `by`, inside the outer try.
SysExitInTry(by, code, acc) == OuterTry("SystemExit", code, Requested(acc, by, code))

\* sys.exit(code) outside any try (shap_e_generate.py).
SysExitTop(by, code, acc) == Uncaught("SystemExit", code, Requested(acc, by, code))

----------------------------------------------------------------------------
(* Steps *)

Advance(step, next) ==
    /\ pc' = next
    /\ log' = Append(log, [step |-> step, i |-> idx])

\* The process ends as `out` says; site names the failure ("none": no failure).
Terminate(site, out) ==
    /\ failure' = site
    /\ exited' = TRUE
    /\ exitStatus' = out.status
    /\ reports' = out.reports
    /\ exits' = out.exits

Running == UNCHANGED <<failure, exited, exitStatus, reports, exits>>

Inputs == UNCHANGED <<script, argv, fsenv>>

----------------------------------------------------------------------------
(* trellis_wrapper.py *)

\* --mode has default='image'.
Mode(a) == IF a.mode = "omitted" THEN "image" ELSE a.mode

ArgparseOutputDirOptional(a) ==
    IF a.help THEN "help"
    ELSE IF ~a.hasInput \/ a.mode = "invalid" THEN "error"
    ELSE "ok"

\* parser.parse_args(): -h prints the help and exits 0; a missing required
\* argument or a value outside choices prints usage and "error:" on stderr and
\* exits 2 (a.help: -h is met before any offending argument).
ArgparseOutcome(a) ==
    IF a.help THEN "help"
    ELSE IF ~a.hasInput \/ ~a.hasOutputDir \/ a.mode = "invalid" THEN "error"
    ELSE "ok"

T_ParseArgs ==
    /\ script = "trellis_wrapper" /\ pc = "parse_args" /\ ~exited
    /\ LET o == ArgparseOutcome(argv) IN
       CASE o = "help" ->
              /\ Advance("parse_args", "exited")
              /\ Terminate("none",
                     SysExitInTry("argparse", 0,
                         Said(Acc, Report("usage:", "stdout", "none", "argparse"))))
         [] o = "error" ->
              /\ Advance("parse_args", "exited")
              /\ Terminate("argparse",
                     SysExitInTry("argparse", 2,
                         Said(Acc, Report("error:", "stderr", "none", "argparse"))))
         [] OTHER ->
              /\ Advance("parse_args", "makedirs")
              /\ Running
    /\ Inputs
    /\ UNCHANGED <<idx, files, exported, dirsMade, loaded, inferCalls, inferOk,
                   emptyCacheCalls>>

\* os.makedirs(args.output_dir, exist_ok=True)
T_MakeDirs ==
    /\ script = "trellis_wrapper" /\ pc = "makedirs" /\ ~exited
    /\ \E ok \in BOOLEAN :
         IF ok
         THEN /\ Advance("makedirs", "import")
              /\ dirsMade' = dirsMade \cup {"output_dir"}
              /\ Running
         ELSE /\ Advance("makedirs", "exited")
              /\ Terminate("makedirs", OuterTry("Exception", 1, Acc))
              /\ UNCHANGED dirsMade
    /\ Inputs
    /\ UNCHANGED <<idx, files, exported, loaded, inferCalls, inferOk, emptyCacheCalls>>

\* import torch ... from trellis.utils import ...: returns, raises ImportError,
\* or raises something else (torch.cuda.get_device_name, a broken native library).
T_Import ==
    /\ script = "trellis_wrapper" /\ pc = "import" /\ ~exited
    /\ \E o \in {"ok", "ImportError", "Exception"} :
         IF o = "ok"
         THEN /\ Advance("import", IF Mode(argv) = "image" THEN "load" ELSE "text_mode")
              /\ Running
         ELSE /\ Advance("import", "exited")
              /\ Terminate(IF o = "ImportError" THEN "import" ELSE "import_other",
                           ImportTry(o, 1, Acc))
    /\ Inputs
    /\ UNCHANGED <<idx, files, exported, dirsMade, loaded, inferCalls, inferOk,
                   emptyCacheCalls>>

T_LoadPipelineReturnsOnError ==
    /\ script = "trellis_wrapper" /\ pc = "load" /\ ~exited
    /\ \E ok \in BOOLEAN :
         IF ok
         THEN /\ Advance("load", "check_input")
              /\ loaded' = TRUE
              /\ Running
         ELSE /\ Advance("load", "exited")
              /\ Terminate("load",
                     Said(Acc, Report("ERROR:", "stdout", "none", "load_handler")))
              /\ UNCHANGED loaded
    /\ Inputs
    /\ UNCHANGED <<idx, files, exported, dirsMade, inferCalls, inferOk, emptyCacheCalls>>

\* pipeline = TrellisImageTo3DPipeline.from_pretrained(...); pipeline.cuda()
T_LoadPipeline ==
    /\ script = "trellis_wrapper" /\ pc = "load" /\ ~exited
    /\ \E ok \in BOOLEAN :
         IF ok
         THEN /\ Advance("load", "check_input")
              /\ loaded' = TRUE
              /\ Running
         ELSE /\ Advance("load", "exited")
              /\ Terminate("load", OuterTry("Exception", 1, Acc))
              /\ UNCHANGED loaded
    /\ Inputs
    /\ UNCHANGED <<idx, files, exported, dirsMade, inferCalls, inferOk, emptyCacheCalls>>

\* if not os.path.exists(args.input): print("ERROR: ..."); sys.exit(1)
T_CheckInput ==
    /\ script = "trellis_wrapper" /\ pc = "check_input" /\ ~exited
    /\ IF fsenv.inputExists
       THEN /\ Advance("check_input", "open_image")
            /\ Running
       ELSE /\ Advance("check_input", "exited")
            /\ Terminate("input_missing",
                   SysExitInTry("input_check", 1,
                       Said(Acc, Report("ERROR:", "stdout", "none", "input_check"))))
    /\ Inputs
    /\ UNCHANGED <<idx, files, exported, dirsMade, loaded, inferCalls, inferOk,
                   emptyCacheCalls>>

\* from PIL import Image; image = Image.open(args.input)
T_OpenImage ==
    /\ script = "trellis_wrapper" /\ pc = "open_image" /\ ~exited
    /\ \E ok \in BOOLEAN :
         IF ok
         THEN /\ Advance("open_image", "run")
              /\ Running
         ELSE /\ Advance("open_image", "exited")
              /\ Terminate("input_invalid", OuterTry("Exception", 1, Acc))
    /\ Inputs
    /\ UNCHANGED <<idx, files, exported, dirsMade, loaded, inferCalls, inferOk,
                   emptyCacheCalls>>

T_RunPipelineRetry ==
    /\ script = "trellis_wrapper" /\ pc = "run" /\ ~exited
    /\ inferCalls' = inferCalls + 1
    /\ \E ok \in BOOLEAN :
         IF ok
         THEN /\ Advance("run", "import_export_libs")
              /\ inferOk' = TRUE
         ELSE /\ Advance("run", "run")
              /\ UNCHANGED inferOk
    /\ Running
    /\ Inputs
    /\ UNCHANGED <<idx, files, exported, dirsMade, loaded, emptyCacheCalls>>

\* outputs = pipeline.run(image, seed=..., ...)
T_RunPipeline ==
    /\ script = "trellis_wrapper" /\ pc = "run" /\ ~exited
    /\ inferCalls' = inferCalls + 1
    /\ \E ok \in BOOLEAN :
         IF ok
         THEN /\ Advance("run", "import_export_libs")
              /\ inferOk' = TRUE
              /\ Running
         ELSE /\ Advance("run", "exited")
              /\ Terminate("inference", OuterTry("Exception", 1, Acc))
              /\ UNCHANGED inferOk
    /\ Inputs
    /\ UNCHANGED <<idx, files, exported, dirsMade, loaded, emptyCacheCalls>>

\* else: print("ERROR: Text-to-3D mode is not yet implemented"); sys.exit(1)
T_TextMode ==
    /\ script = "trellis_wrapper" /\ pc = "text_mode" /\ ~exited
    /\ Advance("text_mode", "exited")
    /\ Terminate("text_mode",
           SysExitInTry("text_branch", 1,
               Said(Acc, Report("ERROR:", "stdout", "none", "text_branch"))))
    /\ Inputs
    /\ UNCHANGED <<idx, files, exported, dirsMade, loaded, inferCalls, inferOk,
                   emptyCacheCalls>>

\* import imageio; import trimesh; import numpy as np (outside the import try)
T_ImportExportLibs ==
    /\ script = "trellis_wrapper" /\ pc = "import_export_libs" /\ ~exited
    /\ \E ok \in BOOLEAN :
         IF ok
         THEN /\ Advance("import_export_libs", "export_glb")
              /\ Running
         ELSE /\ Advance("import_export_libs", "exited")
              /\ Terminate("import_export_libs", OuterTry("ImportError", 1, Acc))
    /\ Inputs
    /\ UNCHANGED <<idx, files, exported, dirsMade, loaded, inferCalls, inferOk,
                   emptyCacheCalls>>

\* An export of file f inside the export try: it returns ("ok"), raises before
\* the file is created ("fail"), or raises leaving a partial file ("partial").
T_Export(step, next, f) ==
    /\ script = "trellis_wrapper" /\ pc = step /\ ~exited
    /\ \E o \in {"ok", "fail", "partial"} :
         /\ files' = IF o = "fail" THEN files ELSE files \cup {f}
         /\ IF o = "ok"
            THEN /\ Advance(step, next)
                 /\ exported' = Append(exported, f)
                 /\ Running
            ELSE /\ Advance(step, "exited")
                 /\ Terminate(step, ExportTry("Exception", 1, Acc))
                 /\ UNCHANGED exported
    /\ Inputs
    /\ UNCHANGED <<idx, dirsMade, loaded, inferCalls, inferOk, emptyCacheCalls>>

T_ExportGLBAlsoPly ==
    /\ script = "trellis_wrapper" /\ pc = "export_glb" /\ ~exited
    /\ Advance("export_glb", "export_obj")
    /\ files' = files \cup {glb_path, ply_path}
    /\ exported' = exported \o <<ply_path, glb_path>>
    /\ Running
    /\ Inputs
    /\ UNCHANGED <<idx, dirsMade, loaded, inferCalls, inferOk, emptyCacheCalls>>

\* glb = postprocessing_utils.to_glb(...); glb.export(glb_path)
T_ExportGLB == T_Export("export_glb", "export_obj", glb_path)

\* mesh_obj = trimesh.Trimesh(vertices=..., faces=...); mesh_obj.export(obj_path)
T_ExportOBJ == T_Export("export_obj", "cleanup", obj_path)

T_CleanupTwice ==
    /\ script = "trellis_wrapper" /\ pc = "cleanup" /\ ~exited
    /\ emptyCacheCalls' = emptyCacheCalls + 2
    /\ Advance("cleanup", "exited")
    /\ Terminate("none", Acc)
    /\ Inputs
    /\ UNCHANGED <<idx, files, exported, dirsMade, loaded, inferCalls, inferOk>>

\* After the try statement: import torch; torch.cuda.empty_cache(); main()
\* returns and the process ends with status 0, unless the call raises.
T_Cleanup ==
    /\ script = "trellis_wrapper" /\ pc = "cleanup" /\ ~exited
    /\ emptyCacheCalls' = emptyCacheCalls + 1
    /\ Advance("cleanup", "exited")
    /\ \E ok \in BOOLEAN :
         IF ok
         THEN Terminate("none", Acc)
         ELSE Terminate("cleanup", Uncaught("Exception", 1, Acc))
    /\ Inputs
    /\ UNCHANGED <<idx, files, exported, dirsMade, loaded, inferCalls, inferOk>>

----------------------------------------------------------------------------
(* The shap-e scripts.  None of them has a try statement: an exception      *)
(* leaves main() and the interpreter ends the process.                      *)

TestScripts == {"shap_e_test", "shap_e_test_with_render"}

BatchSize(s) == IF s = "shap_e_test" THEN batch_size_test ELSE batch_size_render

\* A statement of script s outside any try: it returns and onOk happens, or it
\* raises, onFail happens and the exception leaves main().
Stmt(s, step, next, site, onOk, onFail) ==
    /\ script = s /\ pc = step /\ ~exited
    /\ \E ok \in BOOLEAN :
         IF ok
         THEN /\ Advance(step, next)
              /\ Running
              /\ onOk
         ELSE /\ Advance(step, "exited")
              /\ Terminate(site, Uncaught("Exception", 1, Acc))
              /\ onFail
    /\ Inputs

\* import torch; from shap_e... import ... at module level
S_Imports(s) ==
    Stmt(s, "imports", IF s = "shap_e_generate" THEN "check_argc" ELSE "load", "import",
         UNCHANGED <<idx, files, exported, dirsMade, loaded, inferCalls, inferOk,
                     emptyCacheCalls>>,
         UNCHANGED <<idx, files, exported, dirsMade, loaded, inferCalls, inferOk,
                     emptyCacheCalls>>)

\* xm = load_model('transmitter'); model = load_model('text300M');
\* diffusion = diffusion_from_config(load_config('diffusion'))
S_LoadModels(s) ==
    Stmt(s, "load", "sample", "load",
         /\ loaded' = TRUE
         /\ UNCHANGED <<idx, files, exported, dirsMade, inferCalls, inferOk,
                        emptyCacheCalls>>,
         UNCHANGED <<idx, files, exported, dirsMade, loaded, inferCalls, inferOk,
                     emptyCacheCalls>>)

\* latents = sample_latents(batch_size=..., ...)
S_Sample(s, next) ==
    Stmt(s, "sample", next, "inference",
         /\ inferCalls' = inferCalls + 1
         /\ inferOk' = TRUE
         /\ UNCHANGED <<idx, files, exported, dirsMade, loaded, emptyCacheCalls>>,
         /\ inferCalls' = inferCalls + 1
         /\ UNCHANGED <<idx, files, exported, dirsMade, loaded, inferOk,
                        emptyCacheCalls>>)

\* A call that only computes (decode_latent_mesh(...).tri_mesh(),
\* decode_latent_images, create_pan_cameras).
S_Compute(s, step, next, site) ==
    Stmt(s, step, next, site,
         UNCHANGED <<idx, files, exported, dirsMade, loaded, inferCalls, inferOk,
                     emptyCacheCalls>>,
         UNCHANGED <<idx, files, exported, dirsMade, loaded, inferCalls, inferOk,
                     emptyCacheCalls>>)

\* os.makedirs(dir, exist_ok=True)
S_MakeDirs(s, step, next, dir) ==
    Stmt(s, step, next, "makedirs",
         /\ dirsMade' = dirsMade \cup {dir}
         /\ UNCHANGED <<idx, files, exported, loaded, inferCalls, inferOk,
                        emptyCacheCalls>>,
         UNCHANGED <<idx, files, exported, dirsMade, loaded, inferCalls, inferOk,
                     emptyCacheCalls>>)

\* The directory dir exists when script s opens a file in it: the script made
\* it, or (the caller's directory of shap_e_generate.py) it was there before.
DirExists(dir) ==
    \/ dir \in dirsMade
    \/ dir = "output_obj_dir" /\ fsenv.outDirExists

\* open(f, 'w') / open(f, 'wb'): creates the file, or raises; it can only
\* succeed in a directory that exists.
S_Open(s, step, next, f) ==
    /\ script = s /\ pc = step /\ ~exited
    /\ \E ok \in {b \in BOOLEAN : b => DirExists(f.dir)} :
         IF ok
         THEN /\ Advance(step, next)
              /\ Running
              /\ files' = files \cup {f}
         ELSE /\ Advance(step, "exited")
              /\ Terminate("export", Uncaught("Exception", 1, Acc))
              /\ UNCHANGED files
    /\ Inputs
    /\ UNCHANGED <<idx, exported, dirsMade, loaded, inferCalls, inferOk,
                   emptyCacheCalls>>

\* mesh.write_ply(f) / mesh.write_obj(f) on the open file, then the file is
\* closed; a raise leaves the file as far as it was written.
S_Write(s, step, next, f, i) ==
    Stmt(s, step, next, "export",
         /\ exported' = Append(exported, f)
         /\ idx' = i
         /\ UNCHANGED <<files, dirsMade, loaded, inferCalls, inferOk, emptyCacheCalls>>,
         UNCHANGED <<idx, files, exported, dirsMade, loaded, inferCalls, inferOk,
                     emptyCacheCalls>>)

\* main() returns: the process ends with status 0.
S_Return(s, step) ==
    /\ script = s /\ pc = step /\ ~exited
    /\ Advance(step, "exited")
    /\ Terminate("none", Acc)
    /\ Inputs
    /\ UNCHANGED <<idx, files, exported, dirsMade, loaded, inferCalls, inferOk,
                   emptyCacheCalls>>

----------------------------------------------------------------------------
(* shap_e_generate.py *)

G_Imports == S_Imports("shap_e_generate")

\* if len(sys.argv) < 5: print("Usage: ..."); sys.exit(1)
G_CheckArgc ==
    /\ script = "shap_e_generate" /\ pc = "check_argc" /\ ~exited
    /\ IF argv.nargs + 1 < 5
       THEN /\ Advance("check_argc", "exited")
            /\ Terminate("argc",
                   SysExitTop("usage_check", 1,
                       Said(Acc, Report("Usage:", "stdout", "none", "usage_check"))))
       ELSE /\ Advance("check_argc", "parse_numbers")
            /\ Running
    /\ Inputs
    /\ UNCHANGED <<idx, files, exported, dirsMade, loaded, inferCalls, inferOk,
                   emptyCacheCalls>>

\* guidance_scale = float(sys.argv[2]); steps = int(sys.argv[3])
G_ParseNumbers ==
    /\ script = "shap_e_generate" /\ pc = "parse_numbers" /\ ~exited
    /\ IF argv.numsOk
       THEN /\ Advance("parse_numbers", "load")
            /\ Running
       ELSE /\ Advance("parse_numbers", "exited")
            /\ Terminate("parse_numbers", Uncaught("Exception", 1, Acc))
    /\ Inputs
    /\ UNCHANGED <<idx, files, exported, dirsMade, loaded, inferCalls, inferOk,
                   emptyCacheCalls>>

G_LoadModels == S_LoadModels("shap_e_generate")

G_Sample == S_Sample("shap_e_generate", "decode_mesh")

G_DecodeMesh == S_Compute("shap_e_generate", "decode_mesh", "open_obj", "decode")

\* with open(output_obj, 'w') as f:  (no os.makedirs before it)
G_OpenObj == S_Open("shap_e_generate", "open_obj", "write_obj", output_obj)

G_WriteObj == S_Write("shap_e_generate", "write_obj", "return", output_obj, idx)

G_Return == S_Return("shap_e_generate", "return")

----------------------------------------------------------------------------
(* shap_e_test.py *)

P_Imports == S_Imports("shap_e_test")

P_LoadModels == S_LoadModels("shap_e_test")

P_Sample == S_Sample("shap_e_test", "makedirs_meshes")

\* os.makedirs("meshes", exist_ok=True)
P_MakeDirs == S_MakeDirs("shap_e_test", "makedirs_meshes", "loop", "meshes")

\* for i, latent in enumerate(latents): the next latent, or the loop is over.
P_Loop ==
    /\ script = "shap_e_test" /\ pc = "loop" /\ ~exited
    /\ IF idx < BatchSize(script)
       THEN /\ Advance("loop", "decode_mesh")
            /\ Running
       ELSE /\ Advance("loop", "exited")
            /\ Terminate("none", Acc)
    /\ Inputs
    /\ UNCHANGED <<idx, files, exported, dirsMade, loaded, inferCalls, inferOk,
                   emptyCacheCalls>>

P_DecodeMesh == S_Compute("shap_e_test", "decode_mesh", "open_ply", "decode")

P_OpenPly == S_Open("shap_e_test", "open_ply", "write_ply", MeshPly(idx))

P_WritePly == S_Write("shap_e_test", "write_ply", "open_obj", MeshPly(idx), idx)

P_OpenObj == S_Open("shap_e_test", "open_obj", "write_obj", MeshObj(idx))

P_WriteObj == S_Write("shap_e_test", "write_obj", "loop", MeshObj(idx), idx + 1)

----------------------------------------------------------------------------
(* shap_e_test_with_render.py *)

R_Imports == S_Imports("shap_e_test_with_render")

R_LoadModels == S_LoadModels("shap_e_test_with_render")

R_Sample == S_Sample("shap_e_test_with_render", "cameras")

\* cameras = create_pan_cameras(render_size, device)
R_Cameras == S_Compute("shap_e_test_with_render", "cameras", "makedirs_renders", "cameras")

\* os.makedirs("renders", exist_ok=True)
R_MakeDirsRenders ==
    S_MakeDirs("shap_e_test_with_render", "makedirs_renders", "makedirs_meshes", "renders")

\* os.makedirs("meshes", exist_ok=True)
R_MakeDirsMeshes ==
    S_MakeDirs("shap_e_test_with_render", "makedirs_meshes", "loop", "meshes")

R_Loop ==
    /\ script = "shap_e_test_with_render" /\ pc = "loop" /\ ~exited
    /\ IF idx < BatchSize(script)
       THEN /\ Advance("loop", "decode_images")
            /\ Running
       ELSE /\ Advance("loop", "exited")
            /\ Terminate("none", Acc)
    /\ Inputs
    /\ UNCHANGED <<idx, files, exported, dirsMade, loaded, inferCalls, inferOk,
                   emptyCacheCalls>>

\* images = decode_latent_images(xm, latent, cameras, rendering_mode=render_mode)
R_DecodeImages ==
    S_Compute("shap_e_test_with_render", "decode_images", "save_gif", "render")

R_SaveGifSkipped ==
    /\ script = "shap_e_test_with_render" /\ pc = "save_gif" /\ ~exited
    /\ Advance("save_gif", "decode_mesh")
    /\ Running
    /\ Inputs
    /\ UNCHANGED <<idx, files, exported, dirsMade, loaded, inferCalls, inferOk,
                   emptyCacheCalls>>

\* save_images_as_gif(images, gif_path, duration=120): converts the frames to
\* RGB and calls rgb_images[0].save(filename, save_all=True, ...); it returns,
\* raises before the file is created, or raises leaving a partial file.
R_SaveGif ==
    /\ script = "shap_e_test_with_render" /\ pc = "save_gif" /\ ~exited
    /\ \E o \in {"ok", "fail", "partial"} :
         /\ files' = IF o = "fail" THEN files ELSE files \cup {GifPath(idx)}
         /\ IF o = "ok"
            THEN /\ Advance("save_gif", "decode_mesh")
                 /\ exported' = Append(exported, GifPath(idx))
                 /\ Running
            ELSE /\ Advance("save_gif", "exited")
                 /\ Terminate("export", Uncaught("Exception", 1, Acc))
                 /\ UNCHANGED exported
    /\ Inputs
    /\ UNCHANGED <<idx, dirsMade, loaded, inferCalls, inferOk, emptyCacheCalls>>

R_DecodeMesh == S_Compute("shap_e_test_with_render", "decode_mesh", "open_ply", "decode")

R_OpenPly == S_Open("shap_e_test_with_render", "open_ply", "write_ply", MeshPly(idx))

R_WritePly ==
    S_Write("shap_e_test_with_render", "write_ply", "open_obj", MeshPly(idx), idx)

R_OpenObj == S_Open("shap_e_test_with_render", "open_obj", "write_obj", MeshObj(idx))

R_WriteObj ==
    S_Write("shap_e_test_with_render", "write_obj", "loop", MeshObj(idx), idx + 1)

----------------------------------------------------------------------------
(* The runs *)

TrellisArgv ==
    [help : BOOLEAN, hasInput : BOOLEAN, hasOutputDir : BOOLEAN,
     mode : {"omitted", "image", "text", "invalid"}, nargs : {0}, numsOk : {TRUE}]

GenerateArgv ==
    [help : {FALSE}, hasInput : {FALSE}, hasOutputDir : {FALSE},
     mode : {"omitted"}, nargs : 0..MaxArgc, numsOk : BOOLEAN]

NoArgv ==
    [help : {FALSE}, hasInput : {FALSE}, hasOutputDir : {FALSE},
     mode : {"omitted"}, nargs : {0}, numsOk : {TRUE}]

Argvs(s) ==
    IF s = "trellis_wrapper" THEN TrellisArgv
    ELSE IF s = "shap_e_generate" THEN GenerateArgv
    ELSE NoArgv

Init ==
    /\ script \in Scripts
    /\ argv \in Argvs(script)
    /\ fsenv \in [inputExists : BOOLEAN, outDirExists : BOOLEAN]
    /\ pc = IF script = "trellis_wrapper" THEN "parse_args" ELSE "imports"
    /\ idx = 0
    /\ exited = FALSE
    /\ exitStatus = 0
    /\ files = {}
    /\ exported = <<>>
    /\ dirsMade = {}
    /\ reports = <<>>
    /\ exits = <<>>
    /\ loaded = FALSE
    /\ inferCalls = 0
    /\ inferOk = FALSE
    /\ emptyCacheCalls = 0
    /\ failure = "none"
    /\ log = <<>>

Next ==
    \/ T_ParseArgs \/ T_MakeDirs \/ T_Import \/ T_LoadPipeline \/ T_CheckInput
    \/ T_OpenImage \/ T_RunPipeline \/ T_TextMode \/ T_ImportExportLibs
    \/ T_ExportGLB \/ T_ExportOBJ \/ T_Cleanup
    \/ G_Imports \/ G_CheckArgc \/ G_ParseNumbers \/ G_LoadModels \/ G_Sample
    \/ G_DecodeMesh \/ G_OpenObj \/ G_WriteObj \/ G_Return
    \/ P_Imports \/ P_LoadModels \/ P_Sample \/ P_MakeDirs \/ P_Loop
    \/ P_DecodeMesh \/ P_OpenPly \/ P_WritePly \/ P_OpenObj \/ P_WriteObj
    \/ R_Imports \/ R_LoadModels \/ R_Sample \/ R_Cameras \/ R_MakeDirsRenders
    \/ R_MakeDirsMeshes \/ R_Loop \/ R_DecodeImages \/ R_SaveGif \/ R_DecodeMesh
    \/ R_OpenPly \/ R_WritePly \/ R_OpenObj \/ R_WriteObj

Spec == Init /\ [][Next]_vars

----------------------------------------------------------------------------
(* Properties *)

Trellis == script = "trellis_wrapper"

InTrySites ==
    {"argparse", "makedirs", "import", "import_other", "load", "input_missing",
     "input_invalid", "inference", "text_mode", "import_export_libs", "export_glb",
     "export_obj"}

\* Failures that are exceptions raised inside main's try of trellis_wrapper.py.
TrellisExceptionSites ==
    {"makedirs", "import", "import_other", "load", "input_invalid", "inference",
     "import_export_libs", "export_glb", "export_obj"}

Handlers == {"outer_handler", "import_handler", "export_handler"}

ErrorReports == {k \in 1..Len(reports) : reports[k].tag = "ERROR:"}

\* C1: in trellis_wrapper.py a missing input path, an ImportError of the torch /
\* trellis imports and a failed GLB or OBJ export each end the run with exit
\* status exactly 1, whatever happened before.
C1_FailureExitsOne ==
    Trellis /\ failure \in {"input_missing", "import", "export_glb", "export_obj"}
        => exited /\ exitStatus = 1

C1_Witness ==
    /\ Trellis /\ failure = "export_obj" /\ glb_path \in Range(exported)
    /\ exited /\ exitStatus = 1

\* C2 as stated: a run of trellis_wrapper.py without input, import or export
\* failure exits 0, in image and in text mode and whatever pipeline loading and
\* the inference call do.
C2_Original ==
    Trellis /\ exited /\ failure \in {"none", "text_mode", "load", "inference"}
        => exitStatus = 0

\* C2 amended: a run of trellis_wrapper.py exits 0 exactly when nothing failed;
\* an argparse error exits 2 and every other failure, text mode and a failed
\* pipeline load or inference call included, exits 1.
C2_ExitZeroIffNoFailure ==
    Trellis /\ exited =>
        /\ exitStatus = (IF failure = "none" THEN 0
                         ELSE IF failure = "argparse" THEN 2 ELSE 1)
        /\ (Mode(argv) = "text" /\ ~argv.help => exitStatus # 0)

C2_Witness ==
    /\ Trellis /\ exited /\ exitStatus = 0 /\ failure = "none"
    /\ Mode(argv) = "image" /\ inferOk /\ obj_path \in Range(exported)

MissingRequired ==
    \/ Trellis /\ ~argv.help /\ (~argv.hasInput \/ ~argv.hasOutputDir)
    \/ script = "shap_e_generate" /\ argv.nargs < 4

\* C3 as stated: a run that omits a required argument, and is ended by the
\* script's check of its arguments, exits 2, in trellis_wrapper.py and in
\* shap_e_generate.py.
C3_Original ==
    exited /\ MissingRequired /\ failure \in {"argparse", "argc"} => exitStatus = 2

\* C3 amended: trellis_wrapper.py without --input or without --output_dir (and
\* without -h) exits 2; shap_e_generate.py with fewer than four positional
\* arguments exits 1.
C3_MissingArgumentStatus ==
    exited /\ MissingRequired => exitStatus = (IF Trellis THEN 2 ELSE 1)

C3_Witness ==
    /\ script = "shap_e_generate" /\ argv.nargs = 3 /\ exited /\ exitStatus = 1
    /\ failure = "argc"

\* C4 as stated: every file a script has opened for writing lies in a directory
\* that script has created (os.makedirs) before.
C4_DirCreatedBeforeWrite == \A f \in files : f.dir \in dirsMade

CategorySites ==
    {"input_missing", "input_invalid", "import", "import_other", "import_export_libs",
     "inference", "export_glb", "export_obj", "export"}

\* C5 as stated: every failure is caught by a handler of the script, reported
\* on standard output together with a stack trace, and followed by a non-zero
\* exit status.
C5_Original ==
    failure \in CategorySites =>
        /\ exited /\ exitStatus # 0
        /\ \E r \in Range(reports) :
             r.by \in Handlers /\ r.stream = "stdout" /\ r.trace = "stdout"

\* C5 amended: every failure ends the process with a non-zero status; in
\* trellis_wrapper.py an exception raised inside main's try is caught by one of
\* main's handlers, which prints "ERROR:" on stdout and the stack trace on
\* stderr, and a missing input is reported on stdout without a stack trace; the
\* shap-e scripts catch nothing: the interpreter prints the traceback on stderr.
C5_FailureTerminatesNonZero ==
    failure # "none" =>
        /\ exited /\ exitStatus # 0 /\ reports # <<>>
        /\ (Trellis /\ failure \in TrellisExceptionSites =>
              \E r \in Range(reports) :
                  /\ r.by \in Handlers /\ r.tag = "ERROR:"
                  /\ r.stream = "stdout" /\ r.trace = "stderr")
        /\ (Trellis /\ failure = "input_missing" =>
              reports = <<Report("ERROR:", "stdout", "none", "input_check")>>)
        /\ (~Trellis =>
              /\ \A r \in Range(reports) : r.by \notin Handlers
              /\ (failure # "argc" =>
                    reports = <<Report("Traceback", "stderr", "stderr", "interpreter")>>))

C5_Witness ==
    /\ script = "shap_e_test" /\ failure = "inference" /\ exited /\ exitStatus = 1
    /\ reports = <<Report("Traceback", "stderr", "stderr", "interpreter")>>

\* C6 as stated: torch.cuda.empty_cache is called exactly once on every run of
\* trellis_wrapper.py that reaches process exit.
C6_Original == Trellis /\ exited => emptyCacheCalls = 1

\* C6 amended: torch.cuda.empty_cache is called at most once, and exactly on
\* the run whose try block completed (both exports returned); a run that ends
\* by sys.exit inside main ends without the call.
C6_CacheReleasedOnSuccessOnly ==
    Trellis =>
        /\ emptyCacheCalls <= 1
        /\ (exited =>
              emptyCacheCalls = (IF obj_path \in Range(exported) THEN 1 ELSE 0))
        /\ (exited /\ failure \in InTrySites => emptyCacheCalls = 0)
        /\ (exited /\ exitStatus = 0 /\ ~argv.help => emptyCacheCalls = 1)

C6_Witness ==
    Trellis /\ exited /\ exitStatus = 0 /\ emptyCacheCalls = 1 /\ failure = "none"

Phase(e) ==
    IF e.step \in {"parse_args", "check_argc", "parse_numbers"} THEN 1
    ELSE IF e.step = "load" THEN 2
    ELSE IF e.step \in {"run", "sample"} THEN 3
    ELSE IF e.step \in {"export_glb", "export_obj", "save_gif", "open_ply", "write_ply",
                        "open_obj", "write_obj"} THEN 4
    ELSE 0

\* C7: every run is parse, load, one inference call, write, exit: the inference
\* call is made at most once and only with the model loaded, no file is written
\* before it returned, no statement is executed twice, the phases never go
\* back, and a failure ends the run.
C7_LinearRun ==
    /\ inferCalls <= 1
    /\ (inferCalls >= 1 => loaded)
    /\ (files # {} => inferOk)
    /\ \A a, b \in 1..Len(log) :
         a < b =>
           /\ log[a] # log[b]
           /\ (Phase(log[a]) > 0 /\ Phase(log[b]) > 0 => Phase(log[a]) <= Phase(log[b]))
    /\ (failure # "none" => exited)
    /\ (exited => pc = "exited")

C7_Witness ==
    /\ Trellis /\ exited /\ exitStatus = 0 /\ inferCalls = 1
    /\ files = {glb_path, obj_path} /\ loaded

\* C8 as stated: a sys.exit inside the outer try of trellis_wrapper.py is never
\* intercepted by the outer handler, the process ends with the status requested
\* there, and each failure produces exactly one "ERROR:" report.
C8_Original ==
    Trellis /\ exited =>
        /\ (exits # <<>> => Len(exits) = 1 /\ exitStatus = exits[1].code)
        /\ (failure \in InTrySites => Cardinality(ErrorReports) = 1)

\* C8 amended: as stated, except that an argparse error produces no "ERROR:"
\* report: argparse prints its own "error:" line on stderr; every other failure
\* inside the try produces exactly one "ERROR:" report, the outer handler's only
\* for an exception no inner site handled.
C8_ExitNotIntercepted ==
    Trellis /\ exited =>
        /\ (exits # <<>> => Len(exits) = 1 /\ exitStatus = exits[1].code)
        /\ (failure \in InTrySites =>
              /\ Len(reports) = 1
              /\ Cardinality(ErrorReports) = (IF failure = "argparse" THEN 0 ELSE 1))
        /\ (failure = "argparse" =>
              reports = <<Report("error:", "stderr", "none", "argparse")>>)
        /\ (\E r \in Range(reports) : r.by = "outer_handler") =>
              failure \in {"makedirs", "import_other", "load", "input_invalid",
                           "inference", "import_export_libs"}

C8_Witness ==
    /\ Trellis /\ exited /\ failure = "import" /\ exitStatus = 1
    /\ exits = <<[by |-> "import_handler", code |-> 1]>>
    /\ Cardinality(ErrorReports) = 1

\* C9 as stated: trellis_wrapper.py writes only model.glb and model.obj,
\* model.obj only after model.glb was exported; a run that exits 0 has written
\* both, a text-mode run none, and gaussian.ply and preview.mp4 are never written.
C9_Original ==
    Trellis =>
        /\ files \subseteq {glb_path, obj_path}
        /\ (obj_path \in files => glb_path \in Range(exported))
        /\ (exited /\ exitStatus = 0 => {glb_path, obj_path} \subseteq Range(exported))
        /\ (Mode(argv) = "text" => files = {})
        /\ ply_path \notin files /\ preview_path \notin files

\* C9 amended: as stated, except that the run that exits 0 and has written both
\* files is the run in which the arguments were parsed: a -h run exits 0 from
\* argparse and writes nothing.
C9_OutputFiles ==
    Trellis =>
        /\ files \subseteq {glb_path, obj_path}
        /\ (obj_path \in files => glb_path \in Range(exported))
        /\ (exited /\ exitStatus = 0 /\ ~argv.help =>
              {glb_path, obj_path} \subseteq Range(exported))
        /\ (exited /\ exitStatus = 0 /\ argv.help => files = {})
        /\ (Mode(argv) = "text" => files = {})
        /\ ply_path \notin files /\ preview_path \notin files

C9_Witness ==
    /\ Trellis /\ exited /\ exitStatus = 0 /\ ~argv.help
    /\ exported = <<glb_path, obj_path>>

\* The output files of latent i, in the order the loop body writes them.
LatentFiles(s, i) ==
    IF s = "shap_e_test" THEN <<MeshPly(i), MeshObj(i)>>
    ELSE <<GifPath(i), MeshPly(i), MeshObj(i)>>

\* All output files of a complete run of test script s, in order.
ExpectedOrder(s) ==
    LET m == Len(LatentFiles(s, 0)) IN
    [k \in 1..(BatchSize(s) * m) |-> LatentFiles(s, (k - 1) \div m)[((k - 1) % m) + 1]]

\* C10: the shap-e test scripts export latents in index order and each latent's
\* files in a fixed order: the files exported are a prefix of that order, at
\* most the next file of it exists besides (being written), so the files of
\* latent i exist only with all files of every latent j < i; a run that
\* completes has exported all files of latents 0..batch_size-1.
C10_PrefixOrder ==
    script \in TestScripts =>
        LET e == ExpectedOrder(script) IN
        /\ Len(exported) <= Len(e)
        /\ \A k \in 1..Len(exported) : exported[k] = e[k]
        /\ \A f \in files :
             \E k \in 1..Len(e) : e[k] = f /\ k <= Len(exported) + 1
        /\ \A f \in files : \A j \in 0..(f.i - 1) :
             Range(LatentFiles(script, j)) \subseteq (files \cap Range(exported))
        /\ (exited /\ failure = "none" => exported = e)

C10_Witness ==
    /\ script = "shap_e_test_with_render" /\ exited /\ failure = "export"
    /\ idx = 1 /\ MeshPly(1) \in files /\ MeshObj(1) \notin files
    /\ Len(exported) = 4

====
